---------------------------- MODULE Spec2Model ----------------------------
(***************************************************************************)
(* A model of package quotable (src/quotable.go): Split and the quoter     *)
(* state machine behind it.                                                *)
(*                                                                         *)
(* Runes are integers (code points).  The input string s is modelled as    *)
(* the sequence of runes that `for _, c := range s` yields; the loop is    *)
(* modelled one iteration per step, the rune of each iteration being       *)
(* drawn from Alphabet.  q.buf is a sequence of bytes: WriteRune appends   *)
(* the UTF-8 encoding of the rune, q.buf.Len() is a byte count, and the    *)
(* returned words are byte slices of the buffer.                           *)
(***************************************************************************)
EXTENDS Integers, Sequences, FiniteSets, TLC

VARIABLES
    qopt,      \* the *Options argument of Split (Nil or an Options value)
    s,         \* the runes of the input consumed by the range loop so far
    q,         \* the quoter
    pc,        \* "loop": in the range loop, "done": Split has returned
    results,   \* returned []string (a sequence of byte sequences)
    err        \* returned error

vars == <<qopt, s, q, pc, results, err>>

-----------------------------------------------------------------------------
(* Bounds of the model *)

\* longest input, in runes, that the general specification feeds
MaxLen == 5

\* the runes the general specification draws from:
\* space, double quote, backslash, 'a' (hex digit and letter escape),
\* 'x' (hex introducer), 'z' (ordinary, invalid escape), U+00A0 (no-break
\* space: not ASCII, white space for unicode.IsSpace but not U+0020)
Alphabet == {32, 34, 92, 97, 120, 122, 160}

\* the hex specification feeds: an optional opening quote, a backslash, one
\* of x u U, then runes of HexChars while the escape is open, and at most
\* MaxTail runes of TailChars in all
MaxTail == 1

\* '0', 'd', 'F'
HexChars == {48, 100, 70}

\* space, double quote, backslash, 'x'
TailChars == {32, 34, 92, 120}

-----------------------------------------------------------------------------
(* Options and errors *)

Nil == [nil |-> TRUE]

Options == [FancyBackslash : BOOLEAN, OnlySpaceIsSpace : BOOLEAN]

ZeroOptions == [FancyBackslash |-> FALSE, OnlySpaceIsSpace |-> FALSE]

\* the nil error
NoError == [msg |-> "nil", c |-> 0]

MismatchedQuote == [msg |-> "mismatched quote", c |-> 0]

IncompleteBackslash == [msg |-> "incomplete backslash sequence", c |-> 0]

\* Error(fmt.Sprintf("invalid backslash escape character '%c'", c))
InvalidEscape(c) == [msg |-> "invalid backslash escape character", c |-> c]

-----------------------------------------------------------------------------
(* type state and the dispatch table *)

normal == 0

quoted == 1

backslash == 2

hex == 3

stateFuncs ==
    [st \in {normal, quoted, backslash, hex} |->
        CASE st = normal -> "stateNormal"
          [] st = quoted -> "stateQuoted"
          [] st = backslash -> "stateBackslash"
          [] st = hex -> "stateHex"]

-----------------------------------------------------------------------------
(* Library functions the package calls *)

\* unicode.IsSpace
IsSpace(r) ==
    \/ r \in {9, 10, 11, 12, 13, 32, 133, 160}
    \/ r = 5760
    \/ r \in 8192..8202
    \/ r \in {8232, 8233, 8239, 8287, 12288}

isExactSpace(r) == r = 32

\* strings.Builder.WriteRune appends utf8.AppendRune(r): the UTF-8 encoding
\* of r, or of U+FFFD when r is negative, above U+10FFFF or a surrogate.
EncodeRune(r) ==
    LET rr == IF r < 0 \/ r > 1114111 \/ r \in 55296..57343 THEN 65533 ELSE r
    IN  IF rr <= 127 THEN <<rr>>
        ELSE IF rr <= 2047 THEN <<192 + (rr \div 64), 128 + (rr % 64)>>
        ELSE IF rr <= 65535
             THEN <<224 + (rr \div 4096), 128 + ((rr \div 64) % 64),
                    128 + (rr % 64)>>
        ELSE <<240 + (rr \div 262144), 128 + ((rr \div 4096) % 64),
               128 + ((rr \div 64) % 64), 128 + (rr % 64)>>

WriteRune(qq, r) == [qq EXCEPT !.buf = @ \o EncodeRune(r)]

-----------------------------------------------------------------------------
(* The quoter *)

push(qq, st) ==
    LET base == IF Len(qq.states) = 0 THEN <<normal>> ELSE qq.states
    IN  [qq EXCEPT !.states = Append(base, st),
                   !.currentFunc = stateFuncs[st]]

\* pop that leaves currentFunc at the handler of the state it removed
popStaleFunc(qq) ==
    IF Len(qq.states) > 1
    THEN [qq EXCEPT !.states = SubSeq(qq.states, 1, Len(qq.states) - 1)]
    ELSE qq

pop(qq) ==
    IF Len(qq.states) > 1
    THEN LET rest == SubSeq(qq.states, 1, Len(qq.states) - 1)
         IN  [qq EXCEPT !.states = rest,
                        !.currentFunc = stateFuncs[rest[Len(rest)]]]
    ELSE qq

\* newWord without the check for a partial word
newWordAlways(qq) ==
    [qq EXCEPT !.indexes = Append(@, Len(qq.buf)), !.partial = FALSE]

newWord(qq) ==
    IF ~qq.partial
    THEN qq
    ELSE [qq EXCEPT !.indexes = Append(@, Len(qq.buf)), !.partial = FALSE]

\* simpleBackslash that stays in the backslash state
simpleBackslashNoPop(qq, c) == WriteRune(qq, c)

simpleBackslash(qq, c) == pop(WriteRune(qq, c))

StartHex(qq, n) == push([qq EXCEPT !.hexValue = 0, !.parseHex = n], hex)

\* fancyBackslash that leaves backslash below the hex state it pushes
fancyBackslashNoPop(qq, c) ==
    LET p == pop(qq)
    IN  CASE c = 120 -> StartHex(qq, 2)
          [] c = 117 -> StartHex(qq, 4)
          [] c = 85 -> StartHex(qq, 8)
          [] c = 97 -> WriteRune(p, 7)
          [] c = 98 -> WriteRune(p, 8)
          [] c = 102 -> WriteRune(p, 12)
          [] c = 110 -> WriteRune(p, 10)
          [] c = 114 -> WriteRune(p, 13)
          [] c = 116 -> WriteRune(p, 9)
          [] c = 118 -> WriteRune(p, 11)
          [] c = 92 -> WriteRune(p, 92)
          [] c = 34 -> WriteRune(p, 34)
          [] c = 39 -> WriteRune(p, 39)
          [] OTHER -> WriteRune([p EXCEPT !.err = InvalidEscape(c)], c)

\* fancyBackslash that reports an invalid escape character and drops it
fancyBackslashDropsInvalid(qq, c) ==
    LET p == pop(qq)
    IN  CASE c = 120 -> StartHex(p, 2)
          [] c = 117 -> StartHex(p, 4)
          [] c = 85 -> StartHex(p, 8)
          [] c = 97 -> WriteRune(p, 7)
          [] c = 98 -> WriteRune(p, 8)
          [] c = 102 -> WriteRune(p, 12)
          [] c = 110 -> WriteRune(p, 10)
          [] c = 114 -> WriteRune(p, 13)
          [] c = 116 -> WriteRune(p, 9)
          [] c = 118 -> WriteRune(p, 11)
          [] c = 92 -> WriteRune(p, 92)
          [] c = 34 -> WriteRune(p, 34)
          [] c = 39 -> WriteRune(p, 39)
          [] OTHER -> [p EXCEPT !.err = InvalidEscape(c)]

\* fancyBackslash without the case for the single quote
fancyBackslashNoSingleQuote(qq, c) ==
    LET p == pop(qq)
    IN  CASE c = 120 -> StartHex(p, 2)
          [] c = 117 -> StartHex(p, 4)
          [] c = 85 -> StartHex(p, 8)
          [] c = 97 -> WriteRune(p, 7)
          [] c = 98 -> WriteRune(p, 8)
          [] c = 102 -> WriteRune(p, 12)
          [] c = 110 -> WriteRune(p, 10)
          [] c = 114 -> WriteRune(p, 13)
          [] c = 116 -> WriteRune(p, 9)
          [] c = 118 -> WriteRune(p, 11)
          [] c = 92 -> WriteRune(p, 92)
          [] c = 34 -> WriteRune(p, 34)
          [] OTHER -> WriteRune([p EXCEPT !.err = InvalidEscape(c)], c)

fancyBackslash(qq, c) ==
    LET p == pop(qq)
    IN  CASE c = 120 -> StartHex(p, 2)
          [] c = 117 -> StartHex(p, 4)
          [] c = 85 -> StartHex(p, 8)
          [] c = 97 -> WriteRune(p, 7)
          [] c = 98 -> WriteRune(p, 8)
          [] c = 102 -> WriteRune(p, 12)
          [] c = 110 -> WriteRune(p, 10)
          [] c = 114 -> WriteRune(p, 13)
          [] c = 116 -> WriteRune(p, 9)
          [] c = 118 -> WriteRune(p, 11)
          [] c = 92 -> WriteRune(p, 92)
          [] c = 34 -> WriteRune(p, 34)
          [] c = 39 -> WriteRune(p, 39)
          [] OTHER -> WriteRune([p EXCEPT !.err = InvalidEscape(c)], c)

hexDigits ==
    [i \in 0..127 |->
        IF i \in 48..57 THEN i - 48
        ELSE IF i \in 65..70 THEN i - 55
        ELSE IF i \in 97..102 THEN i - 87
        ELSE -1]

\* the accumulator shifted as a decimal number
HexShiftDecimal(h, val) == h * 10 + val

\* q.hexValue*16 + rune(val) in int32 arithmetic (wrapping)
HexShift(h, val) ==
    LET low28 == h % 268435456
        low27 == low28 % 134217728
        v == low27 * 16 + val
    IN  IF low28 >= 134217728 THEN (v - 2147483647) - 1 ELSE v

\* stateNormal that starts a word only when it appends a rune
stateNormalPartialOnWrite(qq, c) ==
    LET sp == IF qq.isspace = "isExactSpace" THEN isExactSpace(c) ELSE IsSpace(c)
    IN  IF sp THEN newWord(qq)
        ELSE IF c = 92 THEN push(qq, backslash)
        ELSE IF c = 34 THEN push(qq, quoted)
        ELSE [WriteRune(qq, c) EXCEPT !.partial = TRUE]

stateNormal(qq, c) ==
    LET sp == IF qq.isspace = "isExactSpace" THEN isExactSpace(c) ELSE IsSpace(c)
    IN  IF sp THEN newWord(qq)
        ELSE LET r == IF c = 92 THEN push(qq, backslash)
                      ELSE IF c = 34 THEN push(qq, quoted)
                      ELSE WriteRune(qq, c)
             IN  [r EXCEPT !.partial = TRUE]

stateBackslash(qq, c) ==
    IF qq.backslash = "fancyBackslash"
    THEN fancyBackslash(qq, c)
    ELSE simpleBackslash(qq, c)

\* stateQuoted that ends the word at a space
stateQuotedSplits(qq, c) ==
    IF c = 92 THEN push(qq, backslash)
    ELSE IF c = 34 THEN pop(qq)
    ELSE IF c = 32 THEN newWord(qq)
    ELSE WriteRune(qq, c)

stateQuoted(qq, c) ==
    IF c = 92 THEN push(qq, backslash)
    ELSE IF c = 34 THEN pop(qq)
    ELSE WriteRune(qq, c)

RECURSIVE stateHex(_, _)

\* q.currentFunc(q, c)
currentFunc(qq, c) ==
    CASE qq.currentFunc = "stateNormal" -> stateNormal(qq, c)
      [] qq.currentFunc = "stateQuoted" -> stateQuoted(qq, c)
      [] qq.currentFunc = "stateBackslash" -> stateBackslash(qq, c)
      [] qq.currentFunc = "stateHex" -> stateHex(qq, c)

\* stateHex that drops the rune it cannot handle
stateHexDropsRune(qq, c) ==
    IF c < 128 /\ hexDigits[c] # -1
    THEN LET d == [qq EXCEPT !.hexValue = HexShift(qq.hexValue, hexDigits[c]),
                             !.parseHex = @ - 1]
         IN  IF d.parseHex = 0 THEN pop(WriteRune(d, d.hexValue)) ELSE d
    ELSE pop(WriteRune(qq, qq.hexValue))

\* stateHex that stays in the hex state after the last digit
stateHexNoPopWhenDone(qq, c) ==
    IF c < 128 /\ hexDigits[c] # -1
    THEN LET d == [qq EXCEPT !.hexValue = HexShift(qq.hexValue, hexDigits[c]),
                             !.parseHex = @ - 1]
         IN  IF d.parseHex = 0 THEN WriteRune(d, d.hexValue) ELSE d
    ELSE currentFunc(pop(WriteRune(qq, qq.hexValue)), c)

stateHex(qq, c) ==
    IF c < 128 /\ hexDigits[c] # -1
    THEN LET d == [qq EXCEPT !.hexValue = HexShift(qq.hexValue, hexDigits[c]),
                             !.parseHex = @ - 1]
         IN  IF d.parseHex = 0 THEN pop(WriteRune(d, d.hexValue)) ELSE d
    ELSE currentFunc(pop(WriteRune(qq, qq.hexValue)), c)

\* next that stops processing once an error is recorded
nextStopsOnError(qq, c) == IF qq.err # NoError THEN qq ELSE currentFunc(qq, c)

next(qq, c) == currentFunc(qq, c)

RECURSIVE Invocations(_, _)

\* the number of handler calls that q.next(c) makes: the handler of the
\* current state, and from stateHex, for a rune that is no hex digit, the
\* call of q.currentFunc after the pop
Invocations(qq, c) ==
    IF qq.currentFunc = "stateHex" /\ ~(c < 128 /\ hexDigits[c] # -1)
    THEN 1 + Invocations(pop(WriteRune(qq, qq.hexValue)), c)
    ELSE 1

-----------------------------------------------------------------------------
(* Split *)

\* NewQuoter with the test of OnlySpaceIsSpace inverted
NewQuoterSwapsSpace(o) ==
    LET opt == IF o = Nil THEN ZeroOptions ELSE o
    IN  [buf |-> <<>>,
         states |-> <<normal>>,
         currentFunc |-> stateFuncs[normal],
         partial |-> FALSE,
         isspace |-> IF opt.OnlySpaceIsSpace THEN "unicode.IsSpace"
                     ELSE "isExactSpace",
         backslash |-> IF opt.FancyBackslash THEN "fancyBackslash"
                       ELSE "simpleBackslash",
         parseHex |-> 0,
         hexValue |-> 0,
         indexes |-> <<>>,
         err |-> NoError]

\* var q quoter, then lines 252-263
NewQuoter(o) ==
    LET opt == IF o = Nil THEN ZeroOptions ELSE o
    IN  [buf |-> <<>>,
         states |-> <<normal>>,
         currentFunc |-> stateFuncs[normal],
         partial |-> FALSE,
         isspace |-> IF opt.OnlySpaceIsSpace THEN "isExactSpace"
                     ELSE "unicode.IsSpace",
         backslash |-> IF opt.FancyBackslash THEN "fancyBackslash"
                       ELSE "simpleBackslash",
         parseHex |-> 0,
         hexValue |-> 0,
         indexes |-> <<>>,
         err |-> NoError]

\* Finalize that leaves the unfinished backslash out of the buffer
FinalizeDropsBackslash(qq) ==
    LET top == qq.states[Len(qq.states)]
        e == CASE top = quoted -> [qq EXCEPT !.err = MismatchedQuote]
               [] top = backslash -> [qq EXCEPT !.err = IncompleteBackslash]
               [] OTHER -> qq
    IN  newWord(e)

\* the switch on the final state, then q.newWord()
Finalize(qq) ==
    LET top == qq.states[Len(qq.states)]
        e == CASE top = quoted -> [qq EXCEPT !.err = MismatchedQuote]
               [] top = backslash ->
                    [WriteRune(qq, 92) EXCEPT !.err = IncompleteBackslash]
               [] OTHER -> qq
    IN  newWord(e)

\* words[idx] = bufStr[prev:next]
Words(qq) ==
    [idx \in 1..Len(qq.indexes) |->
        SubSeq(qq.buf,
               (IF idx = 1 THEN 0 ELSE qq.indexes[idx - 1]) + 1,
               qq.indexes[idx])]

Init ==
    /\ qopt \in {Nil} \cup Options
    /\ s = <<>>
    /\ q = NewQuoter(qopt)
    /\ pc = "loop"
    /\ results = <<>>
    /\ err = NoError

\* one iteration of `for _, c := range s { q.next(c) }`
SplitLoop ==
    /\ pc = "loop"
    /\ Len(s) < MaxLen
    /\ \E c \in Alphabet :
          /\ s' = Append(s, c)
          /\ q' = next(q, c)
    /\ UNCHANGED <<qopt, pc, results, err>>

\* a return that leaves Split in its loop
SplitReturnStaysInLoop ==
    /\ pc = "loop"
    /\ q' = Finalize(q)
    /\ results' = Words(q')
    /\ err' = q'.err
    /\ UNCHANGED <<qopt, s, pc>>

\* the range loop is exhausted: lines 268-285
SplitReturn ==
    /\ pc = "loop"
    /\ q' = Finalize(q)
    /\ results' = Words(q')
    /\ err' = q'.err
    /\ pc' = "done"
    /\ UNCHANGED <<qopt, s>>

Next == SplitLoop \/ SplitReturn

Spec == Init /\ [][Next]_vars

\* Split is sequential code that never blocks: it keeps taking steps
SpecFair == Spec /\ WF_vars(Next)

-----------------------------------------------------------------------------
(* The same program on inputs built around one hex escape *)

Top(qq) == qq.states[Len(qq.states)]

Front(str) == SubSeq(str, 1, Len(str) - 1)

Last(str) == str[Len(str)]

\* the runes of TailChars in str after the escape's introducer
TailCount(str) ==
    Cardinality({i \in ((IF str[1] = 34 THEN 3 ELSE 2) + 1)..Len(str) :
                    str[i] \in TailChars})

HexGrammar ==
    IF s = <<>> THEN {34, 92}
    ELSE IF s = <<34>> THEN {92}
    ELSE IF Len(s) <= 2 /\ Last(s) = 92 THEN {120, 117, 85}
    ELSE (IF Top(q) = hex THEN HexChars ELSE {})
         \cup (IF TailCount(s) < MaxTail THEN TailChars ELSE {})

InitHex ==
    /\ qopt = [FancyBackslash |-> TRUE, OnlySpaceIsSpace |-> FALSE]
    /\ s = <<>>
    /\ q = NewQuoter(qopt)
    /\ pc = "loop"
    /\ results = <<>>
    /\ err = NoError

HexLoop ==
    /\ pc = "loop"
    /\ \E c \in HexGrammar :
          /\ s' = Append(s, c)
          /\ q' = next(q, c)
    /\ UNCHANGED <<qopt, pc, results, err>>

NextHex == HexLoop \/ SplitReturn

SpecHex == InitHex /\ [][NextHex]_vars

\* s is the start of an input of the hex specification: an optional quote,
\* a backslash, one of x u U, then runes of HexChars and TailChars
OnGrammar ==
    LET i == IF s # <<>> /\ s[1] = 34 THEN 2 ELSE 1
    IN  /\ qopt = [FancyBackslash |-> TRUE, OnlySpaceIsSpace |-> FALSE]
        /\ \A j \in 1..Len(s) :
              /\ j = i => s[j] = 92
              /\ j = i + 1 => s[j] \in {120, 117, 85}
              /\ j > i + 1 => s[j] \in HexChars \cup TailChars

\* Split with any options, on the inputs of both specifications
NextBoth == SplitLoop \/ (OnGrammar /\ HexLoop) \/ SplitReturn

SpecBoth == Init /\ [][NextBoth]_vars


-----------------------------------------------------------------------------
(* Split as a function of its arguments, and vocabulary of the properties *)

RECURSIVE Run(_, _)

\* the quoter after `for _, c := range str { q.next(c) }`
Run(o, str) ==
    IF str = <<>> THEN NewQuoter(o) ELSE next(Run(o, Front(str)), Last(str))

Split(str, o) ==
    LET f == Finalize(Run(o, str))
    IN  [results |-> Words(f), err |-> f.err]

Fancy == [FancyBackslash |-> TRUE, OnlySpaceIsSpace |-> FALSE]

\* the step taken is an iteration of the range loop; Rune is its rune
LoopStep == pc = "loop" /\ pc' = "loop" /\ s' # s

Rune == s'[Len(s')]

ReturnStep == pc = "loop" /\ pc' = "done"

\* is r a word separator under the options Split was called with
Separator(r) ==
    IF qopt # Nil /\ qopt.OnlySpaceIsSpace THEN r = 32 ELSE IsSpace(r)

IsHexDigit(r) == r \in 48..57 \/ r \in 65..70 \/ r \in 97..102

\* the quoter without its error
NoErr(qq) == [qq EXCEPT !.err = NoError]

\* text of the word in progress: the buffer after the last boundary
Pending(qq) ==
    SubSeq(qq.buf,
           (IF qq.indexes = <<>> THEN 0 ELSE Last(qq.indexes)) + 1,
           Len(qq.buf))

-----------------------------------------------------------------------------
(* Error handling *)

\* C1: first error wins: once q.err holds an error, no later step (a later
\* invalid escape character, or the end-of-input checks) replaces it, so the
\* error Split returns is the first anomaly in input order.
C1_FirstErrorWins == [][q.err # NoError => q'.err = q.err]_vars

InQuote(qq) == \E i \in 1..Len(qq.states) : qq.states[i] = quoted

\* C2: when the input ends while a quoted span is open, whatever escape is
\* in progress inside it, Split returns a non-nil error and the text
\* accumulated since the last boundary is the last word.
C2_UnmatchedQuote ==
    [][ReturnStep /\ InQuote(q) =>
          /\ err' # NoError
          /\ results' # <<>>
          /\ Last(results') =
                SubSeq(q'.buf, Len(q.buf) - Len(Pending(q)) + 1, Len(q'.buf))]_vars

\* C3: when the input ends with hex on top of the stack, the value
\* accumulated so far is appended to the buffer as one code point and no
\* error is set.
C3_HexAtEndOfInput ==
    [][ReturnStep /\ Top(q) = hex =>
          /\ q'.buf = q.buf \o EncodeRune(q.hexValue)
          /\ q'.err = q.err]_vars

\* C4: recording an error never changes tokenization: every rune is
\* processed, and each step gives the same buffer, stack, boundaries and
\* escape state as it gives with the pending error erased; the words are
\* returned together with the error.
C4_BestEffort ==
    [][/\ LoopStep => NoErr(next(NoErr(q), Rune)) = NoErr(q')
       /\ ReturnStep =>
            /\ NoErr(Finalize(NoErr(q))) = NoErr(q')
            /\ Words(Finalize(NoErr(q))) = results'
            /\ err' = q'.err
            /\ Len(results') = Len(q'.indexes)]_vars

\* an error is pending and a later rune is still tokenized: "\z a" etc.
C4_Witness ==
    /\ pc = "done"
    /\ s = <<92, 160, 32, 97>>
    /\ qopt = [FancyBackslash |-> TRUE, OnlySpaceIsSpace |-> TRUE]
    /\ err = InvalidEscape(160)
    /\ results = <<<<194, 160>>, <<97>>>>

-----------------------------------------------------------------------------
(* Tokenization *)

RECURSIVE NonSeparatorRuns(_)

\* the maximal runs of non-separator runes of str, in order
NonSeparatorRuns(str) ==
    IF str = <<>> THEN <<>>
    ELSE IF Separator(str[1]) THEN NonSeparatorRuns(Tail(str))
    ELSE LET n == CHOOSE k \in 1..Len(str) :
                     /\ \A i \in 1..k : ~Separator(str[i])
                     /\ k = Len(str) \/ Separator(str[k + 1])
         IN  <<SubSeq(str, 1, n)>>
                \o NonSeparatorRuns(SubSeq(str, n + 1, Len(str)))

RECURSIVE EncodeString(_)

\* the bytes of a Go string holding the runes of str
EncodeString(str) ==
    IF str = <<>> THEN <<>>
    ELSE EncodeRune(str[1]) \o EncodeString(Tail(str))

\* C5: for an input with no double quote and no backslash, Split returns
\* exactly the maximal runs of non-separator runes, in order, none empty,
\* and a nil error.
C5_PassThrough ==
    (pc = "done" /\ \A i \in 1..Len(s) : s[i] \notin {34, 92}) =>
        /\ err = NoError
        /\ Len(results) = Len(NonSeparatorRuns(s))
        /\ \A i \in 1..Len(results) :
              /\ results[i] = EncodeString(NonSeparatorRuns(s)[i])
              /\ results[i] # <<>>

\* " a  z": leading and repeated separators
C5_Witness ==
    /\ pc = "done"
    /\ s = <<32, 97, 32, 32, 122>>
    /\ results = <<<<97>>, <<122>>>>
    /\ err = NoError

\* C6: in quoted mode a separator is appended, records no boundary and
\* leaves the stack unchanged; an unescaped double quote pops back to normal
\* and the word continues (a" "a is the single word "a a").
C6_QuotedSeparators ==
    /\ [][LoopStep /\ Top(q) = quoted =>
            /\ Separator(Rune) =>
                  /\ q'.buf = q.buf \o EncodeRune(Rune)
                  /\ q'.indexes = q.indexes
                  /\ q'.states = q.states
            /\ Rune = 34 =>
                  /\ q'.states = <<normal>>
                  /\ q'.buf = q.buf
                  /\ q'.indexes = q.indexes
                  /\ q'.partial]_vars
    /\ [](pc = "done" /\ s = <<97, 34, 32, 34, 97>> =>
            results = <<<<97, 32, 97>>>> /\ err = NoError)

C6_Witness ==
    /\ pc = "done"
    /\ s = <<97, 34, 32, 34, 97>>
    /\ Len(results) = 1

\* C7: with simpleBackslash, a backslash read in normal or quoted mode only
\* pushes backslash; the next rune, whatever it is, is appended verbatim with
\* no boundary and no quote opened or closed, and the stack returns to the
\* one in effect before the backslash (a\\ z is two words, a\ z is one).
C7_SimpleBackslash ==
    /\ [][LoopStep /\ q.backslash = "simpleBackslash" =>
            /\ Top(q) \in {normal, quoted} /\ Rune = 92 =>
                  /\ q'.states = Append(q.states, backslash)
                  /\ q'.buf = q.buf
                  /\ q'.indexes = q.indexes
            /\ Top(q) = backslash =>
                  /\ q'.buf = q.buf \o EncodeRune(Rune)
                  /\ q'.indexes = q.indexes
                  /\ q'.partial = q.partial
                  /\ q'.states = Run(qopt, Front(s)).states
                  /\ Top(q') \in {normal, quoted}]_vars
    /\ [](pc = "done" /\ q.backslash = "simpleBackslash" =>
            /\ s = <<97, 92, 92, 32, 122>> =>
                  results = <<<<97, 92>>, <<122>>>>
            /\ s = <<97, 92, 32, 122>> => results = <<<<97, 32, 122>>>>)

C7_Witness ==
    /\ pc = "done"
    /\ qopt = Nil
    /\ s = <<97, 92, 92, 32, 122>>
    /\ Len(results) = 2

-----------------------------------------------------------------------------
(* Hex escapes *)

\* while hex is on top: the index in s of the backslash that introduced the
\* open escape.  Only hex digits were read since the introducer x, u or U,
\* which is therefore the last rune of s that is no hex digit.
IntroBackslash ==
    (CHOOSE k \in 1..Len(s) :
        /\ ~IsHexDigit(s[k])
        /\ \A j \in (k + 1)..Len(s) : IsHexDigit(s[j])) - 1

\* the stack of the mode that read that backslash: the stack as the
\* backslash left it, without the backslash state it pushed
EnclosingStack == Front(Run(qopt, SubSeq(s, 1, IntroBackslash)).states)

\* the step gives an open hex escape its last required digit
Completes == LoopStep /\ Top(q) = hex /\ q.parseHex = 1 /\ IsHexDigit(Rune)

\* the last rune read gave a hex escape its last required digit
JustCompleted ==
    /\ pc = "loop"
    /\ s # <<>>
    /\ IsHexDigit(Last(s))
    /\ Top(q) # hex
    /\ LET p == Run(qopt, Front(s))
       IN  Top(p) = hex /\ p.parseHex = 1

\* C8: when a hex escape receives its last required digit the stack becomes
\* the stack in effect when the introducing backslash was read (top normal
\* or quoted, never backslash), and the next rune is ordinary text of that
\* mode (\x69x23 is the single word ix23).
C8_HexContinuity ==
    /\ [][/\ Completes =>
                /\ q'.states = EnclosingStack
                /\ Top(q') \in {normal, quoted}
          /\ LoopStep /\ Rune = 120 /\ JustCompleted =>
                /\ q'.buf = q.buf \o <<120>>
                /\ q'.states = q.states
                /\ q'.indexes = q.indexes]_vars
    /\ [](pc = "done" /\ s = <<92, 120, 100, 100, 120>> =>
            /\ results = <<<<195, 157, 120>>>>
            /\ Split(<<92, 120, 54, 57, 120, 50, 51>>, Fancy) =
                  [results |-> <<<<105, 120, 50, 51>>>>, err |-> NoError])

\* "\u00ddx inside a quote: the x after the escape is text of the quote
C8_Witness ==
    /\ pc = "loop"
    /\ s = <<34, 92, 117, 48, 48, 100, 100, 120>>
    /\ q.states = <<normal, quoted>>
    /\ q.buf = <<195, 157, 120>>

DecodeRune(b) ==
    CASE Len(b) = 1 /\ b[1] < 128 -> b[1]
      [] Len(b) = 2 /\ b[1] \in 194..223 /\ b[2] \in 128..191 ->
            (b[1] - 192) * 64 + (b[2] - 128)
      [] /\ Len(b) = 3 /\ b[1] \in 224..239
         /\ b[2] \in 128..191 /\ b[3] \in 128..191 ->
            (b[1] - 224) * 4096 + (b[2] - 128) * 64 + (b[3] - 128)
      [] /\ Len(b) = 4 /\ b[1] \in 240..244 /\ b[2] \in 128..191
         /\ b[3] \in 128..191 /\ b[4] \in 128..191 ->
            (b[1] - 240) * 262144 + (b[2] - 128) * 4096
                + (b[3] - 128) * 64 + (b[4] - 128)
      [] OTHER -> -1

DigitValue(r) ==
    IF r \in 48..57 THEN r - 48 ELSE IF r \in 65..70 THEN r - 55 ELSE r - 87

\* the digits of the escape that the step completes, as values 0..15, k
\* being the index of its backslash
EscapeDigits(k) ==
    [i \in 1..(Len(s') - k - 1) |-> DigitValue(s'[k + 1 + i])]

\* the number of digits the introducer at s[k + 1] asks for
Required(k) ==
    CASE s[k + 1] = 120 -> 2
      [] s[k + 1] = 117 -> 4
      [] s[k + 1] = 85 -> 8

\* what the step appends to the buffer
Appended == SubSeq(q'.buf, Len(q.buf) + 1, Len(q'.buf))

\* the n hexadecimal digits of v, most significant first (n <= 8, v < 16^6)
ToHex(v, n) == [i \in 1..n |-> IF n - i >= 6 THEN 0 ELSE (v \div 16^(n - i)) % 16]

\* the number that the last six (or fewer) of the digits ds form
HexNumber(ds) ==
    LET n == Len(ds)
        d(j) == IF j < n THEN ds[n - j] ELSE 0
    IN  d(0) + 16 * d(1) + 256 * d(2) + 4096 * d(3) + 65536 * d(4)
            + 1048576 * d(5)

\* the digits form a Unicode scalar value: at most U+10FFFF, no surrogate
ScalarValue(ds) ==
    /\ \A i \in 1..(Len(ds) - 6) : ds[i] = 0
    /\ HexNumber(ds) <= 1114111
    /\ HexNumber(ds) \notin 55296..57343

\* C10 as stated: a complete \x, \u or \U escape appends exactly one code
\* point whose value is the hexadecimal number formed by its 2, 4 or 8
\* digits, for every digit sequence.
C10_HexValueAnyDigits ==
    [][Completes =>
          LET k == IntroBackslash
              ds == EscapeDigits(k)
              cp == DecodeRune(Appended)
          IN  /\ Len(ds) = Required(k)
              /\ SubSeq(q'.buf, 1, Len(q.buf)) = q.buf
              /\ cp >= 0
              /\ ToHex(cp, Len(ds)) = ds
              /\ Len(ds) = 2 => cp < 256
              /\ Len(ds) = 4 => cp < 65536]_vars

\* C10 amended: the escape appends exactly one code point; its value is the
\* number formed by the digits when that number is a Unicode scalar value,
\* and U+FFFD otherwise (a surrogate, a number above U+10FFFF, or an 8-digit
\* number from 80000000 up, which is negative in the int32 accumulator).
C10_HexValue ==
    [][Completes =>
          LET k == IntroBackslash
              ds == EscapeDigits(k)
              cp == DecodeRune(Appended)
              ok == ScalarValue(ds)
          IN  /\ Len(ds) = Required(k)
              /\ SubSeq(q'.buf, 1, Len(q.buf)) = q.buf
              /\ cp >= 0
              /\ ok => cp = HexNumber(ds) /\ ToHex(cp, Len(ds)) = ds
              /\ ~ok => cp = 65533]_vars

\* \U000F0000 has appended U+F0000
C10_Witness ==
    /\ pc = "loop"
    /\ s = <<92, 85, 48, 48, 48, 70, 48, 48, 48, 48>>
    /\ q.buf = <<243, 176, 128, 128>>
    /\ q.states = <<normal>>

-----------------------------------------------------------------------------
(* Extended escapes and separators *)

\* x u U a b f n r t v backslash, double quote, single quote
Recognised == {120, 117, 85, 97, 98, 102, 110, 114, 116, 118, 92, 34, 39}

\* the runes tried after a backslash: the recognised ones and space, '0',
\* 'A', 'N', 'X', 'z', U+00A0, U+1F600
EscapeRunes == Recognised \cup {32, 48, 65, 78, 88, 122, 160, 128512}

\* r is what fancyBackslash makes of qq, backslash on top, and the rune c
Classified(qq, c, r) ==
    /\ Last(Front(qq.states)) \in {normal, quoted}
    /\ c \notin Recognised =>
          /\ r.err = InvalidEscape(c)
          /\ r.buf = qq.buf \o EncodeRune(c)
          /\ r.states = Front(qq.states)
    /\ c \in Recognised => r.err = qq.err
    /\ c \in {120, 117, 85} =>
          /\ r.buf = qq.buf
          /\ r.states = Append(Front(qq.states), hex)
    /\ c \in Recognised \ {120, 117, 85} =>
          /\ Len(r.buf) = Len(qq.buf) + 1
          /\ r.states = Front(qq.states)
    /\ r.indexes = qq.indexes

\* C11: with fancyBackslash the rune after a backslash records an "invalid
\* backslash escape character" error if and only if it is none of x u U a b
\* f n r t v, backslash, double quote, single quote; it is then appended
\* verbatim; in every case backslash is popped and processing continues in
\* the enclosing mode, or in hex for x, u, U.
C11_Classification ==
    /\ [][LoopStep /\ q.backslash = "fancyBackslash" /\ Top(q) = backslash =>
            Classified(q, Rune, q')]_vars
    /\ [](pc = "loop" /\ q.backslash = "fancyBackslash" /\ Top(q) = backslash =>
            \A c \in EscapeRunes : Classified(q, c, next(q, c)))

\* "\z has recorded the error and is back in the quote
C11_Witness ==
    /\ pc = "loop"
    /\ s = <<34, 92, 122>>
    /\ q.err = InvalidEscape(122)
    /\ q.states = <<normal, quoted>>
    /\ q.buf = <<122>>

\* the code points with the Unicode property White_Space
WhiteSpace ==
    {9, 10, 11, 12, 13, 32, 133, 160, 5760, 8232, 8233, 8239, 8287, 12288}
        \cup 8192..8202

\* r is what normal mode makes of qq and the white space rune c
SeparatorEffect(qq, c, r) ==
    /\ r.states = qq.states
    /\ IF qopt # Nil /\ qopt.OnlySpaceIsSpace /\ c # 32
       THEN /\ r.buf = qq.buf \o EncodeRune(c)
            /\ r.indexes = qq.indexes
            /\ r.partial
       ELSE /\ r.buf = qq.buf
            /\ r.indexes = IF qq.partial THEN Append(qq.indexes, Len(qq.buf))
                           ELSE qq.indexes
            /\ ~r.partial

\* C12: with OnlySpaceIsSpace only U+0020 ends a word in normal mode, and
\* any other white space is appended as ordinary text; without it, or with
\* nil options, every Unicode white space ends a word.
C12_Separators ==
    /\ [][LoopStep /\ Top(q) = normal =>
            /\ Rune \in WhiteSpace => SeparatorEffect(q, Rune, q')
            /\ Rune \notin WhiteSpace => q'.indexes = q.indexes]_vars
    /\ [](pc = "loop" /\ Top(q) = normal =>
            \A c \in WhiteSpace : SeparatorEffect(q, c, next(q, c)))
    /\ [](pc = "done" /\ s = <<97, 160, 97>> =>
            LET tab == <<97, 9, 98>>
                strict == [FancyBackslash |-> FALSE, OnlySpaceIsSpace |-> TRUE]
            IN  /\ Split(tab, Nil).results = <<<<97>>, <<98>>>>
                /\ Split(tab, ZeroOptions).results = <<<<97>>, <<98>>>>
                /\ Split(tab, strict).results = <<<<97, 9, 98>>>>)

\* a, U+00A0, a is one word when only the space separates
C12_Witness ==
    /\ pc = "done"
    /\ qopt = [FancyBackslash |-> FALSE, OnlySpaceIsSpace |-> TRUE]
    /\ s = <<97, 160, 97>>
    /\ results = <<<<97, 194, 160, 97>>>>

-----------------------------------------------------------------------------
(* Word boundaries and end of input *)

\* every recorded offset is at most the buffer length
Bounded(qq) == \A i \in 1..Len(qq.indexes) : qq.indexes[i] <= Len(qq.buf)

\* a boundary is only ever added at the end, as the buffer length of the time
RecordedAtEnd ==
    [][q'.indexes # q.indexes => q'.indexes = Append(q.indexes, Len(q'.buf))]_vars

\* C13 as stated: each recorded offset is strictly greater than the one
\* before it and at most the buffer length, for every input.
C13_StrictlyIncreasing ==
    /\ Bounded(q)
    /\ \A i \in 1..(Len(q.indexes) - 1) : q.indexes[i] < q.indexes[i + 1]

\* C13 amended: each recorded offset is greater than or equal to the one
\* before it, is the buffer length at the time it is recorded, and stays at
\* most the buffer length; the offsets are strictly increasing when the
\* input has no double quote and no backslash.
C13_Increasing ==
    /\ RecordedAtEnd
    /\ [](/\ Bounded(q)
          /\ \A i \in 1..(Len(q.indexes) - 1) : q.indexes[i] <= q.indexes[i + 1]
          /\ (\A k \in 1..Len(s) : s[k] \notin {34, 92}) =>
                \A i \in 1..(Len(q.indexes) - 1) :
                    q.indexes[i] < q.indexes[i + 1])

\* a, space, "", space: the empty quoted span is a word of its own
C13_Witness ==
    /\ pc = "done"
    /\ s = <<97, 32, 34, 34, 32>>
    /\ q.indexes = <<1, 1>>
    /\ results = <<<<97>>, <<>>>>

\* C14: when the input ends with backslash on top of the stack, in normal
\* mode or inside a quote, with either backslash handler, a literal backslash
\* is appended to the last word and the error is "incomplete backslash
\* sequence".
C14_IncompleteBackslash ==
    [][ReturnStep /\ Top(q) = backslash =>
          /\ q'.buf = q.buf \o <<92>>
          /\ err' = IncompleteBackslash
          /\ results' # <<>>
          /\ Last(results') = Pending(q) \o <<92>>
          /\ Len(results') = Len(q.indexes) + 1]_vars

\* "a\ : the last word is a\ and the quote is not reported
C14_Witness ==
    /\ pc = "done"
    /\ qopt = Fancy
    /\ s = <<34, 97, 92>>
    /\ results = <<<<97, 92>>>>
    /\ err = IncompleteBackslash

-----------------------------------------------------------------------------
(* Invariants of the quoter *)

\* C15: the stack has depth at least 1 and its bottom entry is normal; pop
\* never removes the bottom entry; the handler used for the next rune is
\* the handler of the state on top of the stack.
C15_ModeStack ==
    /\ Len(q.states) >= 1
    /\ q.states[1] = normal
    /\ q.currentFunc = stateFuncs[Top(q)]
    /\ LET p == pop(q)
       IN  /\ Len(p.states) >= 1
           /\ p.states[1] = normal
           /\ p.currentFunc = stateFuncs[Top(p)]
           /\ Len(q.states) = 1 => p = q

\* "" has pushed quoted and popped it again
C15_Witness ==
    /\ pc = "loop"
    /\ s = <<34, 34>>
    /\ q.states = <<normal>>
    /\ q.currentFunc = "stateNormal"

StackShapes ==
    {<<normal>>, <<normal, quoted>>, <<normal, backslash>>, <<normal, hex>>,
     <<normal, quoted, backslash>>, <<normal, quoted, hex>>}

\* C16: at most two states lie above the bottom normal; quoted occurs only
\* directly above the bottom, backslash and hex only on top and never both;
\* hex is on the stack only when FancyBackslash is set, with
\* 1 <= parseHex <= 8.
C16_BoundedNesting ==
    /\ q.states \in StackShapes
    /\ Top(q) = hex =>
          /\ qopt # Nil
          /\ qopt.FancyBackslash
          /\ q.backslash = "fancyBackslash"
          /\ q.parseHex \in 1..8

\* "\U is waiting for eight digits inside a quote
C16_Witness ==
    /\ pc = "loop"
    /\ s = <<34, 92, 85>>
    /\ q.states = <<normal, quoted, hex>>
    /\ q.parseHex = 8

RECURSIVE ConcatTo(_, _)

\* the first n of the words ws, concatenated
ConcatTo(ws, n) == IF n = 0 THEN <<>> ELSE ConcatTo(ws, n - 1) \o ws[n]

\* C17: the returned words, concatenated in order, are the whole buffer;
\* whenever partial is false the buffer length is the last recorded
\* boundary (0 if none), so the last boundary after the final newWord is
\* the final buffer length.
C17_NothingLost ==
    /\ ~q.partial =>
          Len(q.buf) = IF q.indexes = <<>> THEN 0 ELSE Last(q.indexes)
    /\ pc = "done" =>
          /\ ~q.partial
          /\ ConcatTo(results, Len(results)) = q.buf
          /\ Len(results) = Len(q.indexes)

\* a, space, then a quoted space: both words are returned whole
C17_Witness ==
    /\ pc = "done"
    /\ s = <<97, 32, 34, 32, 34>>
    /\ results = <<<<97>>, <<32>>>>
    /\ q.buf = <<97, 32>>

-----------------------------------------------------------------------------
(* Termination, and the two backslash handlers compared *)

\* C18: Split terminates on every input; each rune causes at most two
\* handler invocations (stateHex handing a rune to the enclosing state,
\* which is never hex), then the next rune is taken; the end-of-input
\* finalization runs exactly once, and nothing runs after it.
C18_Termination ==
    /\ [][/\ pc = "loop"
          /\ \/ /\ pc' = "loop"
                /\ Len(s') = Len(s) + 1
                /\ Invocations(q, Rune) <= 2
                /\ Invocations(q, Rune) = 2 <=>
                      Top(q) = hex /\ ~IsHexDigit(Rune)
             \/ /\ pc' = "done"
                /\ s' = s]_vars
    /\ [](Top(q) = hex => Top(pop(q)) # hex)
    /\ <>(pc = "done")

\* \xz: the z went through stateHex and stateNormal
C18_Witness ==
    /\ pc = "done"
    /\ qopt = Fancy
    /\ s = <<92, 120, 122>>
    /\ results = <<<<0, 122>>>>

RECURSIVE PlainEscapes(_, _)

\* every backslash of str that escapes (read with options o and
\* simpleBackslash) and is not the last rune is followed by a separator, a
\* double quote or a backslash
PlainEscapes(o, str) ==
    \/ Len(str) <= 1
    \/ /\ PlainEscapes(o, Front(str))
       /\ Top(Run(o, Front(str))) = backslash =>
             Separator(Last(str)) \/ Last(str) \in {34, 92}

\* C19: for an input in which each escaping backslash is followed by a
\* separator, a double quote or a backslash, Split returns the same words
\* with FancyBackslash as without it; only the error may differ.
C19_ExtendsSimple ==
    (/\ pc = "done"
     /\ qopt # Nil
     /\ qopt.FancyBackslash
     /\ PlainEscapes([qopt EXCEPT !.FancyBackslash = FALSE], s)) =>
        results = Split(s, [qopt EXCEPT !.FancyBackslash = FALSE]).results

\* a\ z: one word either way, and an error with FancyBackslash only
C19_Witness ==
    /\ pc = "done"
    /\ qopt = Fancy
    /\ s = <<97, 92, 32, 122>>
    /\ results = <<<<97, 32, 122>>>>
    /\ err = InvalidEscape(32)
    /\ Split(s, ZeroOptions).err = NoError

=============================================================================
